---- MODULE Spec2Model ----
(***************************************************************************)
(* wilsonplot3.py: parse_truncate_log (the two-pass extractor),            *)
(* create_wilson_plot (the plotter) and the __main__ block that chains     *)
(* them and sets the process exit code.                                    *)
(*                                                                         *)
(* A report is a sequence of lines; a line is a sequence of characters     *)
(* (one-character strings), as returned by readlines().  str.split,        *)
(* str.strip, str.isdigit, the substring test and float() are operators    *)
(* over these character sequences.                                         *)
(***************************************************************************)
EXTENDS Integers, Sequences, FiniteSets

VARIABLES
    argc,               \* len(sys.argv)
    pc,                 \* position in the program
    lines,              \* lines = f.readlines()
    i,                  \* loop index of the running pass (0-based, as in the code)
    in_data_section,
    data_header_line,
    resolution_inv_sq,
    ln_intensity,
    ret,                \* what parse_truncate_log returned
    success,            \* what create_wilson_plot returned
    exit_code,          \* argument of sys.exit, -1 while running
    origin,             \* history: for each accepted point, the pass and line index it came from
    plotter             \* history: what the plotter did

vars == <<argc, pc, lines, i, in_data_section, data_header_line,
          resolution_inv_sq, ln_intensity, ret, success, exit_code, origin, plotter>>

-----------------------------------------------------------------------------
(* Bounds of the model *)

MaxBody == 4        \* lines after the header line in a marker report
MaxRaw == 3         \* lines of a marker-free report

-----------------------------------------------------------------------------
(* Strings *)

Whitespace == {" ", "\n", "\t"}
DigitChars == <<"0", "1", "2", "3", "4", "5", "6", "7", "8", "9">>
Digits == {DigitChars[k] : k \in 1..10}

DigitVal(c) == (CHOOSE k \in 1..10 : DigitChars[k] = c) - 1

\* sub in s
Contains(s, sub) ==
    \E o \in 0..(Len(s) - Len(sub)) : SubSeq(s, o + 1, o + Len(sub)) = sub

\* s.strip() == ""
IsBlank(s) == \A k \in DOMAIN s : s[k] \in Whitespace

\* s.lstrip()
RECURSIVE LStrip(_)
LStrip(s) == IF s # <<>> /\ s[1] \in Whitespace THEN LStrip(Tail(s)) ELSE s

\* s.split(): the maximal runs of non-whitespace characters
RECURSIVE SplitFrom(_, _, _)
SplitFrom(s, cur, acc) ==
    IF s = <<>> THEN (IF cur = <<>> THEN acc ELSE Append(acc, cur))
    ELSE IF s[1] \in Whitespace
         THEN SplitFrom(Tail(s), <<>>, IF cur = <<>> THEN acc ELSE Append(acc, cur))
         ELSE SplitFrom(Tail(s), Append(cur, s[1]), acc)

Split(s) == SplitFrom(s, <<>>, <<>>)

\* s.isdigit()
IsDigitStr(s) == s # <<>> /\ \A k \in DOMAIN s : s[k] \in Digits

RECURSIVE NatVal(_)
NatVal(s) == IF s = <<>> THEN 0
             ELSE NatVal(SubSeq(s, 1, Len(s) - 1)) * 10 + DigitVal(s[Len(s)])

\* float(s) for the decimal literals [sign] digits [. digits]: the value is
\* num * 10^-exp; anything else raises ValueError (ok = FALSE).
ParseFloat(s) ==
    LET signed == s # <<>> /\ s[1] \in {"+", "-"}
        body   == IF signed THEN Tail(s) ELSE s
        dots   == {k \in DOMAIN body : body[k] = "."}
        dot    == IF dots = {} THEN Len(body) + 1 ELSE CHOOSE k \in dots : TRUE
        ip     == SubSeq(body, 1, dot - 1)
        fp     == SubSeq(body, dot + 1, Len(body))
        ok     == Cardinality(dots) <= 1 /\ IsDigitStr(ip \o fp)
        mag    == IF ok THEN NatVal(ip \o fp) ELSE 0
    IN  [ok  |-> ok,
         num |-> IF signed /\ s[1] = "-" THEN 0 - mag ELSE mag,
         exp |-> IF ok THEN Len(fp) ELSE 0]

-----------------------------------------------------------------------------
(* parse_truncate_log *)

data_markers ==
    << <<"i", " ", " ", "n", "r", "e", "f", " ", " ", "N", "_", "u", "n", "q">>,
       <<"R", "a", "n", "g", "e", " ", "N", "_", "o", "b", "s">>,
       <<"$", " ", " ", " ", "i", " ", " ", " ", "n", "r", "e", "f">>,
       <<"W", "i", "l", "s", "o", "n", " ", "P", "l", "o", "t", " ", "-", " ",
         "S", "u", "g", "g", "e", "s", "t", "e", "d", " ",
         "B", "f", "a", "c", "t", "o", "r">> >>

HasMarker(line) == \E m \in DOMAIN data_markers : Contains(line, data_markers[m])

HasDollar(line) == \E k \in DOMAIN line : line[k] = "$"

MinColumns == 8
ResIdx == 4
LnIdx == 7
MinPoints == 2


\* lines 105, 107: the column of 1/d^2 and of ln(I), chosen from the row's width
ResColumn(parts) == IF Len(parts) > ResIdx THEN ResIdx ELSE 1
LnColumn(parts) == IF Len(parts) > LnIdx THEN LnIdx ELSE 3

\* lines 85-88: the header index after looking at line idx
HeaderLine(line, idx, hdr) == IF HasMarker(line) THEN idx ELSE hdr

\* line 91: the line is looked at as part of the table
AfterHeader(idx, hdr) == hdr > 0 /\ idx > hdr

\* line 98: a data line starts with a number
StartsWithDigit(line) == ~IsBlank(line) /\ LStrip(line)[1] \in Digits

\* Pass1Append with each value appended as soon as it is converted
Pass1AppendEager(parts, xs, ys) ==
    LET x  == ParseFloat(parts[ResColumn(parts) + 1])
        y  == ParseFloat(parts[LnColumn(parts) + 1])
        xs1 == IF x.ok THEN Append(xs, [num |-> x.num, exp |-> x.exp]) ELSE xs
    IN  IF x.ok /\ y.ok
        THEN [raised |-> FALSE, xs |-> xs1, ys |-> Append(ys, [num |-> y.num, exp |-> y.exp])]
        ELSE [raised |-> TRUE, xs |-> xs1, ys |-> ys]

\* lines 103-115: both columns are converted, then both are appended; a
\* ValueError of either conversion leaves both lists as they were.
Pass1Append(parts, xs, ys) ==
    LET x == ParseFloat(parts[ResColumn(parts) + 1])
        y == ParseFloat(parts[LnColumn(parts) + 1])
    IN  IF x.ok /\ y.ok
        THEN [raised |-> FALSE, xs |-> Append(xs, [num |-> x.num, exp |-> x.exp]),
                                ys |-> Append(ys, [num |-> y.num, exp |-> y.exp])]
        ELSE [raised |-> TRUE, xs |-> xs, ys |-> ys]

\* line 118-119: the data section ends here
Pass1Ends(line, inds, xs) == inds /\ (HasDollar(line) \/ IsBlank(line)) /\ Len(xs) > 0

\* lines 84-120: one iteration of the first loop
Pass1Step(line, idx, hdr0, inds, xs, ys) ==
    LET hdr   == HeaderLine(line, idx, hdr0)
        same  == [hdr |-> hdr, inds |-> inds, xs |-> xs, ys |-> ys, brk |-> FALSE]
        parts == Split(line)
    IN  IF ~AfterHeader(idx, hdr) THEN same
        ELSE IF HasDollar(line) /\ ~inds THEN [same EXCEPT !.inds = TRUE]
        ELSE IF inds /\ StartsWithDigit(line) /\ Len(parts) >= MinColumns
             THEN LET a == Pass1Append(parts, xs, ys)
                  IN  IF a.raised THEN [same EXCEPT !.xs = a.xs, !.ys = a.ys]
                      ELSE [same EXCEPT !.xs = a.xs, !.ys = a.ys,
                                        !.brk = Pass1Ends(line, inds, a.xs)]
        ELSE [same EXCEPT !.brk = Pass1Ends(line, inds, xs)]

\* Positive without the sanity check
PositiveUnchecked(x) == TRUE

\* line 137: 1/d^2 should be positive
Positive(x) == x.num > 0

\* line 130: a row of the direct scan
Pass2Candidate(parts) == Len(parts) >= MinColumns /\ IsDigitStr(parts[1])

\* Pass2Ends without the break
Pass2NeverEnds(parts, inds) == FALSE

\* line 144: a non-data line after the data started
Pass2Ends(parts, inds) == inds /\ Len(parts) < MinColumns

\* lines 128-145: one iteration of the second loop
Pass2Step(line, inds, xs, ys) ==
    LET parts == Split(line)
        same  == [inds |-> inds, xs |-> xs, ys |-> ys, brk |-> FALSE]
    IN  IF Pass2Candidate(parts)
        THEN LET x == ParseFloat(parts[ResIdx + 1])
                 y == ParseFloat(parts[LnIdx + 1])
             IN  IF x.ok /\ y.ok /\ Positive(x)
                 THEN [same EXCEPT !.inds = TRUE,
                                   !.xs = Append(xs, [num |-> x.num, exp |-> x.exp]),
                                   !.ys = Append(ys, [num |-> y.num, exp |-> y.exp])]
                 ELSE same
        ELSE [same EXCEPT !.brk = Pass2Ends(parts, inds)]

\* TooFewPoints that only rejects the empty list
TooFewPointsEmptyOnly(xs) == xs = <<>>

\* line 160
TooFewPoints(xs) == xs = <<>> \/ Len(xs) < MinPoints

\* HasData that does not look at the lists
HasDataUnchecked(r) == TRUE

\* line 277: both lists are truthy
HasData(r) == ~r.none /\ r.x # <<>> /\ r.y # <<>>

\* ExitStatus that ignores the plotter's result
ExitStatusZero(ok) == 0

\* line 279
ExitStatus(ok) == IF ok THEN 0 ELSE 1

-----------------------------------------------------------------------------
(* The reports read *)

SeqsUpTo(S, n) == UNION {[1..k -> S] : k \in 0..n}

RECURSIVE JoinSp(_)
JoinSp(toks) == IF toks = <<>> THEN <<>>
                ELSE IF Len(toks) = 1 THEN toks[1]
                ELSE toks[1] \o <<" ">> \o JoinSp(Tail(toks))

Toks(cs) == [k \in DOMAIN cs |-> <<cs[k]>>]
Ln(toks) == JoinSp(toks) \o <<"\n">>

TEXT    == <<"n", "o", "t", "e", "\n">>
BLANK   == <<"\n">>
DOLLAR  == <<"$", "$", "\n">>
MARK    == data_markers[2] \o <<"\n">>                     \* "Range N_obs"
MARKD   == data_markers[3] \o <<"\n">>                     \* "$   i   nref"
ROW_A   == <<" ">> \o Ln(Toks(<<"1", "0", "0", "0", "5", "0", "0", "2">>))
ROW_B   == Ln(Toks(<<"2", "0", "0", "0", "7", "0", "0", "3">>))
ROW_NEG == Ln(<< <<"3">>, <<"0">>, <<"0">>, <<"0">>, <<"-", "1">>, <<"0">>, <<"0">>, <<"4">> >>)
ROW_F   == Ln(<< <<"1", ".", "5">>, <<"0">>, <<"0">>, <<"0">>, <<"0", ".", "2">>, <<"0">>, <<"0">>, <<"6">> >>)
ROW_D   == Ln(Toks(<<"4", "0", "0", "0", "9", "0", "0", "1", "$">>))
BAD_X   == Ln(Toks(<<"5", "0", "0", "0", "x", "0", "0", "1">>))
BAD_Y   == Ln(Toks(<<"6", "0", "0", "0", "8", "0", "0", "y">>))
SHORT   == Ln(Toks(<<"7", "0", "0", "0", "6", "0", "0">>))
TEXT8   == Ln(Toks(<<"a", "b", "c", "d", "e", "f", "g", "h">>))

BodyLines == {DOLLAR, BLANK, ROW_A, ROW_NEG, BAD_Y, MARKD, ROW_D}
RawLines == {ROW_A, ROW_B, ROW_NEG, ROW_F, BAD_X, SHORT, TEXT8}

\* a header line, on the first line of the file or after one line of text,
\* and any lines after it
MarkerReports ==
    {pre \o <<MARK>> \o body : pre \in {<<>>, <<TEXT>>}, body \in SeqsUpTo(BodyLines, MaxBody)}

\* no marker anywhere
RawReports == SeqsUpTo(RawLines, MaxRaw)

Reports == MarkerReports \cup RawReports

-----------------------------------------------------------------------------
(* The program *)

\* len(sys.argv): no argument, one argument, both arguments
ArgCounts == {1, 2, 3}

NoRet == [none |-> TRUE, x |-> <<>>, y |-> <<>>]
NoPlot == [called |-> FALSE, fitted |-> FALSE, saved |-> FALSE]

Init ==
    /\ argc \in ArgCounts
    /\ pc = "main"
    /\ lines = <<>>
    /\ i = 0
    /\ in_data_section = FALSE
    /\ data_header_line = -1
    /\ resolution_inv_sq = <<>>
    /\ ln_intensity = <<>>
    /\ ret = NoRet
    /\ success = FALSE
    /\ exit_code = -1
    /\ origin = <<>>
    /\ plotter = NoPlot

\* lines 266-274: the usage check, then the call of parse_truncate_log
Main ==
    /\ pc = "main"
    /\ IF argc < 3
       THEN /\ exit_code' = 1
            /\ pc' = "exit"
       ELSE /\ exit_code' = exit_code
            /\ pc' = "open"
    /\ UNCHANGED <<argc, lines, i, in_data_section, data_header_line,
                   resolution_inv_sq, ln_intensity, ret, success, origin, plotter>>

\* lines 64-81: open and readlines succeed
ReadLines ==
    /\ pc = "open"
    /\ \E r \in Reports : lines' = r
    /\ i' = 0
    /\ in_data_section' = FALSE
    /\ data_header_line' = -1
    /\ resolution_inv_sq' = <<>>
    /\ ln_intensity' = <<>>
    /\ pc' = "pass1"
    /\ UNCHANGED <<argc, ret, success, exit_code, origin, plotter>>

\* lines 68-69, 154-156: open or readlines raises
ReadFails ==
    /\ pc = "open"
    /\ ret' = NoRet
    /\ pc' = "returned"
    /\ UNCHANGED <<argc, lines, i, in_data_section, data_header_line,
                   resolution_inv_sq, ln_intensity, success, exit_code, origin, plotter>>

\* lines 83-120: the loop body on line i
Pass1Line ==
    /\ pc = "pass1"
    /\ i < Len(lines)
    /\ LET s == Pass1Step(lines[i + 1], i, data_header_line, in_data_section,
                          resolution_inv_sq, ln_intensity)
       IN  /\ data_header_line' = s.hdr
           /\ in_data_section' = s.inds
           /\ resolution_inv_sq' = s.xs
           /\ ln_intensity' = s.ys
           /\ origin' = IF Len(s.xs) > Len(resolution_inv_sq)
                        THEN Append(origin, [pass |-> 1, line |-> i]) ELSE origin
           /\ IF s.brk
              THEN /\ pc' = "fallback"
                   /\ i' = i
              ELSE /\ pc' = "pass1"
                   /\ i' = i + 1
    /\ UNCHANGED <<argc, lines, ret, success, exit_code, plotter>>

\* line 83: the first loop runs out of lines
Pass1Done ==
    /\ pc = "pass1"
    /\ i >= Len(lines)
    /\ pc' = "fallback"
    /\ UNCHANGED <<argc, lines, i, in_data_section, data_header_line,
                   resolution_inv_sq, ln_intensity, ret, success, exit_code, origin, plotter>>

\* lines 123-125: the direct scan is tried when the first loop found nothing
Fallback ==
    /\ pc = "fallback"
    /\ IF resolution_inv_sq = <<>>
       THEN /\ in_data_section' = FALSE
            /\ i' = 0
            /\ pc' = "pass2"
       ELSE /\ UNCHANGED <<in_data_section, i>>
            /\ pc' = "result"
    /\ UNCHANGED <<argc, lines, data_header_line, resolution_inv_sq, ln_intensity,
                   ret, success, exit_code, origin, plotter>>

\* lines 127-145: the loop body on line i
Pass2Line ==
    /\ pc = "pass2"
    /\ i < Len(lines)
    /\ LET s == Pass2Step(lines[i + 1], in_data_section, resolution_inv_sq, ln_intensity)
       IN  /\ in_data_section' = s.inds
           /\ resolution_inv_sq' = s.xs
           /\ ln_intensity' = s.ys
           /\ origin' = IF Len(s.xs) > Len(resolution_inv_sq)
                        THEN Append(origin, [pass |-> 2, line |-> i]) ELSE origin
           /\ IF s.brk
              THEN /\ pc' = "result"
                   /\ i' = i
              ELSE /\ pc' = "pass2"
                   /\ i' = i + 1
    /\ UNCHANGED <<argc, lines, data_header_line, ret, success, exit_code, plotter>>

\* line 127: the second loop runs out of lines
Pass2Done ==
    /\ pc = "pass2"
    /\ i >= Len(lines)
    /\ pc' = "result"
    /\ UNCHANGED <<argc, lines, i, in_data_section, data_header_line,
                   resolution_inv_sq, ln_intensity, ret, success, exit_code, origin, plotter>>

\* lines 147-152: what parse_truncate_log returns
Result ==
    /\ pc = "result"
    /\ ret' = IF resolution_inv_sq = <<>> THEN NoRet
              ELSE [none |-> FALSE, x |-> resolution_inv_sq, y |-> ln_intensity]
    /\ pc' = "returned"
    /\ UNCHANGED <<argc, lines, i, in_data_section, data_header_line,
                   resolution_inv_sq, ln_intensity, success, exit_code, origin, plotter>>

\* lines 276-282: the plotter is called if data was extracted
AfterParse ==
    /\ pc = "returned"
    /\ IF HasData(ret)
       THEN /\ pc' = "plot"
            /\ exit_code' = exit_code
       ELSE /\ pc' = "exit"
            /\ exit_code' = 1
    /\ UNCHANGED <<argc, lines, i, in_data_section, data_header_line,
                   resolution_inv_sq, ln_intensity, ret, success, origin, plotter>>

\* lines 158-263: create_wilson_plot.  numpy and matplotlib are outside the
\* program: the fit or the rendering may raise, which the handler of line 259
\* turns into False.
CreateWilsonPlot ==
    /\ pc = "plot"
    /\ IF TooFewPoints(ret.x)
       THEN /\ success' = FALSE
            /\ plotter' = [called |-> TRUE, fitted |-> FALSE, saved |-> FALSE]
       ELSE \E outcome \in {"saved", "fit raises", "render raises"} :
            /\ success' = (outcome = "saved")
            /\ plotter' = [called |-> TRUE, fitted |-> (outcome # "fit raises"),
                           saved |-> (outcome = "saved")]
    /\ pc' = "plotted"
    /\ UNCHANGED <<argc, lines, i, in_data_section, data_header_line,
                   resolution_inv_sq, ln_intensity, ret, exit_code, origin>>

\* line 279
Exit ==
    /\ pc = "plotted"
    /\ exit_code' = ExitStatus(success)
    /\ pc' = "exit"
    /\ UNCHANGED <<argc, lines, i, in_data_section, data_header_line,
                   resolution_inv_sq, ln_intensity, ret, success, origin, plotter>>

Next ==
    \/ Main
    \/ ReadLines
    \/ ReadFails
    \/ Pass1Line
    \/ Pass1Done
    \/ Fallback
    \/ Pass2Line
    \/ Pass2Done
    \/ Result
    \/ AfterParse
    \/ CreateWilsonPlot
    \/ Exit

Spec == Init /\ [][Next]_vars

-----------------------------------------------------------------------------
(* Vocabulary of the properties *)

Running == exit_code = -1
Exited == pc = "exit"
ParseReturned == pc \in {"returned", "plot", "plotted", "exit"} /\ argc >= 3
NoRowAccepted == origin = <<>>
XCol(line) == ParseFloat(Split(line)[ResIdx + 1])
YCol(line) == ParseFloat(Split(line)[LnIdx + 1])
Value(p) == [num |-> p.num, exp |-> p.exp]

-----------------------------------------------------------------------------
\* the program points from which a step is always possible: every action is
\* guarded by its program point alone (the two loops by i < Len(lines) or not)
Steppable == {"main", "open", "pass1", "fallback", "pass2", "result", "returned",
              "plot", "plotted"}

(* C1: the exit code is 0 exactly when extraction returned data and the     *)
(* rendering succeeded, and 1 in every other case (too few arguments, no    *)
(* data or unreadable input, rendering failed or rejected); every run       *)
(* reaches sys.exit: no state short of it is stuck.                         *)
C1_ExitCode ==
    /\ exit_code \in {-1, 0, 1}
    /\ Exited <=> ~Running
    /\ Exited => ((exit_code = 0) <=> (argc >= 3 /\ ~ret.none /\ plotter.saved))
    /\ Exited /\ (argc < 3 \/ ret.none \/ ~plotter.saved) => exit_code = 1
    /\ ~Exited => pc \in Steppable

C1_Witness == Exited /\ exit_code = 0 /\ Len(ret.x) >= MinPoints /\ plotter.saved

(* C2: the plotter is called only after the extractor returned, and when no *)
(* pass accepted a row it is never called: no fit, no image, exit code 1.   *)
C2_ExtractorFirst ==
    /\ plotter.called => ParseReturned /\ pc \in {"plotted", "exit"} /\ ~NoRowAccepted
    /\ ParseReturned /\ NoRowAccepted => ret.none /\ plotter = NoPlot /\ pc # "plot"
    /\ Exited /\ NoRowAccepted => exit_code = 1

C2_Witness == Exited /\ argc >= 3 /\ lines = <<TEXT, MARK, BLANK>> /\ NoRowAccepted

(* C6: with fewer than 2 points the plotter returns failure, fits nothing   *)
(* and writes nothing; a report yielding exactly one point exits nonzero.   *)
C6_TooFewPoints ==
    /\ plotter.called /\ Len(ret.x) < 2 => ~success /\ ~plotter.fitted /\ ~plotter.saved
    /\ plotter.fitted \/ plotter.saved => Len(ret.x) >= 2
    /\ Exited /\ Len(origin) = 1 => plotter.called /\ exit_code = 1

C6_Witness == Exited /\ Len(origin) = 1 /\ plotter.called /\ exit_code = 1

-----------------------------------------------------------------------------
(* The line the running loop is about to process *)

Line == lines[i + 1]
Unparsable(line) == ~XCol(line).ok \/ ~YCol(line).ok

\* line i is a candidate row of the first loop: after the header, inside the
\* data section, digit-leading, with enough columns
Pass1Row ==
    /\ pc = "pass1" /\ i < Len(lines)
    /\ AfterHeader(i, HeaderLine(Line, i, data_header_line))
    /\ in_data_section
    /\ StartsWithDigit(Line)
    /\ Len(Split(Line)) >= MinColumns

\* line i is a candidate row of the second loop
Pass2Row == pc = "pass2" /\ i < Len(lines) /\ Pass2Candidate(Split(Line))

Skipped ==
    /\ resolution_inv_sq' = resolution_inv_sq
    /\ ln_intensity' = ln_intensity
    /\ pc' = pc
    /\ i' = i + 1

Accepted ==
    /\ resolution_inv_sq' = Append(resolution_inv_sq, Value(XCol(Line)))
    /\ ln_intensity' = Append(ln_intensity, Value(YCol(Line)))

(* C5: in either pass a candidate row whose column 4 or 7 does not parse    *)
(* adds nothing to either list and does not end the scan; the two lists     *)
(* have the same length in every state and in the returned value.           *)
C5_BadRowSkipped ==
    /\ [](Len(resolution_inv_sq) = Len(ln_intensity) /\ Len(ret.x) = Len(ret.y))
    /\ [][(Pass1Row \/ Pass2Row) /\ Unparsable(Line) => Skipped]_vars

\* a row after the skipped one (column 7 unparsable, column 4 parsable) was accepted
C5_Witness ==
    /\ pc = "returned"
    /\ lines = <<TEXT, MARK, DOLLAR, BAD_Y, ROW_A>>
    /\ origin = <<[pass |-> 1, line |-> 4]>>
    /\ Len(ret.x) = 1 /\ Len(ret.y) = 1

(* C10: every point of the second pass has x > 0, and a row with x <= 0     *)
(* neither is accepted by it nor starts its data; the first pass accepts a  *)
(* parsable row whatever the sign of x; the second pass runs only when the  *)
(* first accepted nothing, so the points all come from one pass.            *)
C10_Positivity ==
    /\ [](\A k \in DOMAIN origin : origin[k].pass = 2 => resolution_inv_sq[k].num > 0)
    /\ [](\A j, k \in DOMAIN origin : origin[j].pass = origin[k].pass)
    /\ [](pc = "pass2" => \A k \in DOMAIN origin : origin[k].pass = 2)
    /\ [](Len(origin) = Len(resolution_inv_sq))
    /\ [][Pass1Row /\ ~Unparsable(Line) => Accepted]_vars
    /\ [][Pass2Row /\ ~Unparsable(Line) /\ XCol(Line).num <= 0
            => Skipped /\ in_data_section' = in_data_section]_vars
    /\ [][Pass2Row /\ ~Unparsable(Line) /\ XCol(Line).num > 0 => Accepted]_vars

\* the first pass returned a point with x <= 0
C10_Witness ==
    /\ pc = "returned"
    /\ \E k \in DOMAIN origin : origin[k].pass = 1 /\ ret.x[k].num <= 0

-----------------------------------------------------------------------------
(* Reports, as the properties describe them (1-based positions in lines) *)

NoMarker == \A k \in DOMAIN lines : ~HasMarker(lines[k])

\* the criteria of the second pass
Qualifies(line) ==
    /\ Pass2Candidate(Split(line))
    /\ ~Unparsable(line)
    /\ XCol(line).num > 0

\* a line with fewer than MinColumns tokens that follows a qualifying line
Ragged(k) ==
    /\ Len(Split(lines[k])) < MinColumns
    /\ \E j \in 1..(k - 1) : Qualifies(lines[j])

\* the lines up to the first ragged line, all lines if there is none
Scanned == {k \in DOMAIN lines : \A j \in 1..k : ~Ragged(j)}

(* C4 as stated: without a marker, the second pass returns as many points   *)
(* as the report has qualifying lines, wherever they are.                   *)
C4_CountsAllRows ==
    pc = "returned" /\ NoMarker
        => Len(ret.x) = Cardinality({k \in DOMAIN lines : Qualifies(lines[k])})

(* C4, amended: without a marker, the second pass returns as many points as *)
(* there are qualifying lines before the first line of fewer than 8 tokens  *)
(* that follows a qualifying line; qualifying lines after it are not read.  *)
C4_CountsRowsBeforeRagged ==
    pc = "returned" /\ NoMarker
        => /\ Len(ret.x) = Cardinality({k \in Scanned : Qualifies(lines[k])})
           /\ \A n \in DOMAIN origin : origin[n].pass = 2 /\ origin[n].line + 1 \in Scanned

\* a qualifying row after the ragged line was left out
C4_Witness ==
    /\ pc = "returned"
    /\ lines = <<ROW_A, SHORT, ROW_B>>
    /\ origin = <<[pass |-> 2, line |-> 0]>>

\* a row of a table: digit-leading, enough columns, both columns numeric, and
\* neither a delimiter nor a header
TableRow(line) ==
    /\ StartsWithDigit(line)
    /\ Len(Split(line)) >= MinColumns
    /\ ~Unparsable(line)
    /\ ~HasDollar(line)
    /\ ~HasMarker(line)

\* what closes a table: a delimiter or a blank line, not itself a row
Closing(line) ==
    (HasDollar(line) \/ IsBlank(line)) /\ ~HasMarker(line) /\ ~StartsWithDigit(line)

\* lines h .. h+n+2 are a well-formed table of n rows: the only header of the
\* report at h, a delimiter, n rows, a closing line
TableAt(h, n) ==
    /\ n >= 1
    /\ h + n + 2 <= Len(lines)
    /\ \A k \in DOMAIN lines : HasMarker(lines[k]) <=> k = h
    /\ HasDollar(lines[h + 1]) /\ ~StartsWithDigit(lines[h + 1])
    /\ \A k \in (h + 2)..(h + n + 1) : TableRow(lines[k])
    /\ Closing(lines[h + n + 2])

RowPairs(h, n) ==
    [x |-> [k \in 1..n |-> Value(XCol(lines[h + 1 + k]))],
     y |-> [k \in 1..n |-> Value(YCol(lines[h + 1 + k]))]]

(* C3: a report holding a well-formed table returns one pair per table row, *)
(* x from column 4 and y from column 7, in row order, and nothing else.     *)
C3_TableExtracted ==
    pc = "returned" =>
        \A h \in DOMAIN lines : \A n \in 1..Len(lines) :
            TableAt(h, n) => /\ ~ret.none
                             /\ ret.x = RowPairs(h, n).x
                             /\ ret.y = RowPairs(h, n).y
                             /\ \A k \in 1..n : origin[k].line + 1 = h + 1 + k

(* Supporting property: the statement of C3 for a header that is not the  *)
(* first line of the file                                                *)
C3_TableAfterFirstLine ==
    pc = "returned" =>
        \A h \in DOMAIN lines : \A n \in 1..Len(lines) :
            TableAt(h, n) /\ h > 1 => /\ ~ret.none
                                      /\ ret.x = RowPairs(h, n).x
                                      /\ ret.y = RowPairs(h, n).y
                                      /\ origin = [k \in 1..n |-> [pass |-> 1, line |-> h + k]]

C3_TableAfterFirstLine_Witness ==
    pc = "returned" /\ TableAt(2, 2) /\ Len(lines) = 6 /\ Len(ret.x) = 2

(* C7: the first loop keeps the index of the first marker line: a later     *)
(* marker line does not change it and is processed like any other line      *)
(* after the header (a `$` in it opens the data section).                   *)
C7_FirstMarkerKept ==
    [][pc = "pass1" /\ i < Len(lines) /\ data_header_line >= 0
         => /\ data_header_line' = data_header_line
            /\ (HasMarker(Line) /\ i > data_header_line
                  /\ HasDollar(Line) /\ ~in_data_section => in_data_section')]_vars

(* C8: a marker is honoured on any line, the first included: once a marker  *)
(* line and then a `$` line have been processed the first loop is inside    *)
(* the data section, and the rows of the table are returned by the first    *)
(* pass.                                                                    *)
C8_MarkerOnAnyLine ==
    /\ pc = "pass1" /\ (\E k, j \in 1..i : k < j /\ HasMarker(lines[k])
                            /\ HasDollar(lines[j]) /\ ~HasMarker(lines[j]))
          => in_data_section
    /\ pc = "returned" /\ (\E h \in DOMAIN lines : \E n \in 1..Len(lines) : TableAt(h, n))
          => origin # <<>> /\ \A k \in DOMAIN origin : origin[k].pass = 1

(* Supporting property: the statement of C8 for markers not on the       *)
(* first line                                                            *)
C8_MarkerAfterFirstLine ==
    /\ pc = "pass1" /\ (\E k, j \in 2..i : k < j /\ HasMarker(lines[k])
                            /\ HasDollar(lines[j]) /\ ~HasMarker(lines[j]))
          => in_data_section
    /\ pc = "returned" /\ (\E h \in 2..Len(lines) : \E n \in 1..Len(lines) : TableAt(h, n))
          => origin # <<>> /\ \A k \in DOMAIN origin : origin[k].pass = 1

(* C9: inside the data section the first loop ends at the first line that   *)
(* holds `$` or is blank once a point has been accumulated, and goes on to  *)
(* the next line while none has; no line after the one that ended the loop  *)
(* contributes a point.  (A line that itself brings the first point is left *)
(* open: the statement is read either way.)                                 *)
C9_SectionEnd ==
    /\ [][pc = "pass1" /\ i < Len(lines) /\ in_data_section
            /\ (HasDollar(Line) \/ IsBlank(Line))
          => /\ resolution_inv_sq # <<>> => pc' = "fallback" /\ i' = i
             /\ resolution_inv_sq' = <<>> => pc' = "pass1" /\ i' = i + 1]_vars
    /\ [](pc \in {"fallback", "result", "returned"}
            => \A k \in DOMAIN origin : origin[k].pass = 1 => origin[k].line <= i)

====
